---- MODULE Spec2Model ----
(***************************************************************************)
(* RelativeTimestamps (BetterDiscord plugin): the annotator, the subtree   *)
(* watcher, the refresh timer, the settings store and the duration         *)
(* formatter of src/RelativeTimestamps.plugin.js as one state machine.     *)
(*                                                                         *)
(* A Date is a record [sec, frac]: whole seconds since the epoch and the   *)
(* milliseconds within the second (frac < 0 is the invalid date, NaN).     *)
(* A date string is a record [kind, sec, frac]: kind "iso" is the text     *)
(* toISOString() writes (millisecond precision), kind "locale" the text    *)
(* toLocaleString() writes (second precision), kind "garbage" a text Date  *)
(* cannot parse and kind "absent" a missing attribute.                     *)
(***************************************************************************)
EXTENDS Integers, Sequences, FiniteSets, TLC

VARIABLES
  settings,      \* this.settings
  backend,       \* shape of the host persistence API (fixed by the host)
  dataStore,     \* what BdApi.Data holds under (plugin, "settings")
  legacyStore,   \* what BdApi.loadData/saveData hold under (plugin, "settings")
  lsStore,       \* localStorage["RelativeTimestamps:settings"], a raw text
  saved,         \* history: the value and the result of the last _saveSettings()
  timer,         \* this.timer (0 is null)
  liveTimers,    \* interval ids the host still fires
  observer,      \* this.observer (0 is null)
  liveObservers, \* observer ids still connected to the DOM
  pending,       \* per observer id: the queued records (ids of added nodes)
  styleCount,    \* number of <style id="bd-rel-ts-style"> elements in the head
  dom,           \* the elements under the observed root, in document order
  now,           \* the host clock (ms)
  phase,         \* history: "new", "started", "stopped" or "failed" (a start() that threw)
  ended,         \* history: a stop() has taken the marker off a source it had annotated
  op,            \* history: the operation that produced this state
  toast,         \* history: the type of the toast that operation showed ("" if none)
  fmtDate,       \* formatter harness: the date argument
  fmtOut         \* formatter harness: the returned text ("" before the call)

vars == <<settings, backend, dataStore, legacyStore, lsStore, saved, timer,
          liveTimers, observer, liveObservers, pending, styleCount, dom, now,
          phase, ended, op, toast, fmtDate, fmtOut>>

(***************************************************************************)
(* Bounds of the model.                                                    *)
(***************************************************************************)
MaxHost == 1      \* <time> elements the host keeps under the root
MaxClock == 2     \* clock advances of ClockStep each
MaxUnit == 2      \* formatter harness: each unit count ranges over 0..MaxUnit
MaxSources == 2   \* <time> elements under the root in the annotation-only machine

MsPerSec == 1000

SecPerYear == 31536000
SecPerMonth == 2592000
SecPerDay == 86400
SecPerHour == 3600
SecPerMin == 60

(***************************************************************************)
(* DurationFormatter: format(date, now) with this.settings = s.            *)
(***************************************************************************)
Plural(n) == IF n # 1 THEN "s" ELSE ""

RECURSIVE Join(_)
Join(parts) ==
  IF parts = <<>> THEN ""
  ELSE IF Len(parts) = 1 THEN parts[1]
  ELSE parts[1] \o " " \o Join(Tail(parts))

Part(n, unit) == IF n # 0 THEN <<ToString(n) \o " " \o unit \o Plural(n)>> ELSE <<>>

MakeDate(sec, frac) == [sec |-> sec, frac |-> frac]

\* Math.floor((now - date) / 1000), line 476: the millisecond difference is
\* 1000 * (difference of the seconds) + (difference of the fractions)
FloorSeconds(date, nowv) ==
  (nowv.sec - date.sec) + ((nowv.frac - date.frac) \div MsPerSec)

\* lines 476-484: the elapsed whole seconds, clamped at 0, split into units
Decompose(date, nowv) ==
  LET raw == FloorSeconds(date, nowv)
      d0  == IF raw < 0 THEN 0 ELSE raw
      d1  == d0 % SecPerYear
      d2  == d1 % SecPerMonth
      d3  == d2 % SecPerDay
      d4  == d3 % SecPerHour
  IN  [years   |-> d0 \div SecPerYear,
       months  |-> d1 \div SecPerMonth,
       days    |-> d2 \div SecPerDay,
       hours   |-> d3 \div SecPerHour,
       minutes |-> d4 \div SecPerMin,
       seconds |-> d4 % SecPerMin]

\* lines 497-502
Compact(u) ==
  IF u.years # 0 THEN ToString(u.years) \o "y ago"
  ELSE IF u.months # 0 THEN ToString(u.months) \o "mo ago"
  ELSE IF u.days # 0 THEN ToString(u.days) \o "d ago"
  ELSE IF u.hours # 0 THEN ToString(u.hours) \o "h ago"
  ELSE IF u.minutes # 0 THEN ToString(u.minutes) \o "m ago"
  ELSE ToString(u.seconds) \o "s ago"

\* lines 487-494
Detailed(u) ==
  LET parts5 == Part(u.years, "year") \o Part(u.months, "month") \o Part(u.days, "day")
                \o Part(u.hours, "hour") \o Part(u.minutes, "minute")
      parts  == IF u.seconds # 0 \/ parts5 = <<>>
                THEN parts5 \o <<ToString(u.seconds) \o " second" \o Plural(u.seconds)>>
                ELSE parts5
  IN  Join(parts) \o " ago"

\* format() with line 493 reduced to "if (seconds) parts.push(...)"
formatNoForcedSeconds(date, nowv, s) ==
  LET u == Decompose(date, nowv)
  IN  IF s.detailed
      THEN Join(Part(u.years, "year") \o Part(u.months, "month") \o Part(u.days, "day")
                \o Part(u.hours, "hour") \o Part(u.minutes, "minute")
                \o Part(u.seconds, "second")) \o " ago"
      ELSE Compact(u)

\* format() with line 498 (the months unit of the compact style) left out
formatCompactNoMonths(date, nowv, s) ==
  LET u == Decompose(date, nowv)
  IN  IF s.detailed THEN Detailed(u)
      ELSE IF u.months # 0 /\ u.years = 0
           THEN Compact([u EXCEPT !.months = 0])
           ELSE Compact(u)

\* lines 475-503
format(date, nowv, s) ==
  LET u == Decompose(date, nowv)
  IN  IF s.detailed THEN Detailed(u) ELSE Compact(u)

(***************************************************************************)
(* SettingsStore.  A JavaScript value is a record [kind, obj]; obj is the  *)
(* mapping of an object (key -> boolean) and <<>> for every other kind.    *)
(***************************************************************************)
defaultSettings == [detailed |-> TRUE, liveUpdate |-> TRUE, showTooltip |-> TRUE]

SettingKeys == {"detailed", "liveUpdate", "showTooltip"}
KeyOrder == <<"detailed", "liveUpdate", "showTooltip", "legacy">>
AllKeys == {KeyOrder[i] : i \in 1..Len(KeyOrder)}

Undefined == [kind |-> "undefined", obj |-> <<>>]
Prim(k) == [kind |-> k, obj |-> <<>>]
Obj(m) == [kind |-> "object", obj |-> m]

\* every mapping of some of the keys to booleans
Mappings == UNION {[K -> BOOLEAN] : K \in SUBSET AllKeys}
WellFormedSettings == [SettingKeys -> BOOLEAN]
\* the array [true]: an object whose own key "0" holds true
ArrayValue == [kind |-> "array", obj |-> [k \in {"0"} |-> TRUE]]
JSValues == {Undefined, Prim("null"), Prim("string"), Prim("number"), ArrayValue}
            \cup {Obj(m) : m \in Mappings}

\* JSON.stringify(value): the text written to localStorage
BoolText(b) == IF b THEN "true" ELSE "false"
RECURSIVE MemberTexts(_, _)
MemberTexts(m, i) ==
  IF i > Len(KeyOrder) THEN <<>>
  ELSE (IF KeyOrder[i] \in DOMAIN m
        THEN <<"\"" \o KeyOrder[i] \o "\":" \o BoolText(m[KeyOrder[i]])>>
        ELSE <<>>) \o MemberTexts(m, i + 1)
RECURSIVE JoinComma(_)
JoinComma(parts) ==
  IF parts = <<>> THEN ""
  ELSE IF Len(parts) = 1 THEN parts[1]
  ELSE parts[1] \o "," \o JoinComma(Tail(parts))
JSONstringify(v) ==
  CASE v.kind = "object" -> "{" \o JoinComma(MemberTexts(v.obj, 1)) \o "}"
    [] v.kind = "null"   -> "null"
    [] v.kind = "string" -> "\"on\""
    [] v.kind = "number" -> "1"
    [] v.kind = "array"  -> "[true]"
    [] OTHER             -> "undefined"

CorruptText == "{\"detailed\":tr"

\* JSON.parse(raw): [threw, value]
JSONparse(raw) ==
  IF \E v \in JSValues \ {Undefined} : JSONstringify(v) = raw
  THEN [threw |-> FALSE, value |-> CHOOSE v \in JSValues \ {Undefined} : JSONstringify(v) = raw]
  ELSE [threw |-> TRUE, value |-> Undefined]

\* the host API shapes: BdApi.Data bound to the plugin (load(key)), unbound
\* (load(key) throws, load(pluginName, key) works), present but throwing on
\* every call, or absent; the legacy loadData/saveData pair; localStorage.
Shapes == [data : {"none", "bound", "unbound", "broken"}, legacy : BOOLEAN, ls : BOOLEAN]

\* data.load(key) / data.save(key, value) throws; so does the call with pluginName
DataCall1Throws(b) == b.data \in {"unbound", "broken"}
DataCall2Throws(b) == b.data = "broken"
\* localStorage.getItem + JSON.parse, lines 129-135
LocalLoad(b, ls) ==
  IF ~b.ls THEN Undefined
  ELSE IF ls = "" THEN Undefined
  ELSE IF JSONparse(ls).threw THEN Undefined
  ELSE JSONparse(ls).value

\* _dataLoad with the legacy API asked before BdApi.Data
_dataLoadLegacyFirst(b, ds, lg, ls) ==
  IF b.legacy THEN lg
  ELSE IF b.data # "none" /\ ~DataCall1Throws(b) THEN ds
  ELSE IF b.data # "none" /\ ~DataCall2Throws(b) THEN ds
  ELSE LocalLoad(b, ls)

\* lines 104-136: _dataLoad(PLUGIN_NAME, "settings")
_dataLoad(b, ds, lg, ls) ==
  IF b.data # "none" /\ ~DataCall1Throws(b) THEN ds
  ELSE IF b.data # "none" /\ ~DataCall2Throws(b) THEN ds
  ELSE IF b.legacy THEN lg
  ELSE LocalLoad(b, ls)

\* _dataSave that reports success on localStorage without the setItem of line 168
_dataSaveDropsLocal(b, ds, lg, ls, value) ==
  IF b.data # "none" /\ ~DataCall2Throws(b)
  THEN [ds |-> value, lg |-> lg, ls |-> ls, ok |-> TRUE]
  ELSE IF b.legacy
  THEN [ds |-> ds, lg |-> value, ls |-> ls, ok |-> TRUE]
  ELSE [ds |-> ds, lg |-> lg, ls |-> ls, ok |-> b.ls]

\* lines 138-174: _dataSave(PLUGIN_NAME, "settings", value): the stores after
\* the call and the boolean returned
_dataSave(b, ds, lg, ls, value) ==
  IF b.data # "none" /\ ~DataCall1Throws(b)
  THEN [ds |-> value, lg |-> lg, ls |-> ls, ok |-> TRUE]
  ELSE IF b.data # "none" /\ ~DataCall2Throws(b)
  THEN [ds |-> value, lg |-> lg, ls |-> ls, ok |-> TRUE]
  ELSE IF b.legacy
  THEN [ds |-> ds, lg |-> value, ls |-> ls, ok |-> TRUE]
  ELSE IF b.ls
  THEN [ds |-> ds, lg |-> lg, ls |-> JSONstringify(value), ok |-> TRUE]
  ELSE [ds |-> ds, lg |-> lg, ls |-> ls, ok |-> FALSE]

\* Object.assign({}, a, b)
Assign(a, b) == [k \in DOMAIN a \cup DOMAIN b |-> IF k \in DOMAIN b THEN b[k] ELSE a[k]]

\* _loadSettings without the !Array.isArray(loaded) test of line 179
_loadSettingsNoArrayTest(b, ds, lg, ls) ==
  LET loaded  == _dataLoad(b, ds, lg, ls)
      safeObj == IF loaded.kind \in {"object", "array"} THEN loaded.obj ELSE <<>>
  IN  Assign(defaultSettings, safeObj)

\* lines 176-186: the settings _loadSettings() leaves in this.settings
_loadSettings(b, ds, lg, ls) ==
  LET loaded  == _dataLoad(b, ds, lg, ls)
      safeObj == IF loaded.kind = "object" THEN loaded.obj ELSE <<>>
  IN  Assign(defaultSettings, safeObj)

(***************************************************************************)
(* Dates and their texts.                                                  *)
(***************************************************************************)
NaN == MakeDate(0, -1)

Absent == [kind |-> "absent", sec |-> 0, frac |-> 0]
Garbage == [kind |-> "garbage", sec |-> 0, frac |-> 0]

\* Date.prototype.toISOString / toLocaleString of a valid date
toISOString(t) == [kind |-> "iso", sec |-> t.sec, frac |-> t.frac]
toLocaleString(t) == [kind |-> "locale", sec |-> t.sec, frac |-> 0]

\* new Date(text)
DateParse(a) ==
  IF a.kind = "iso" THEN MakeDate(a.sec, a.frac)
  ELSE IF a.kind = "locale" THEN MakeDate(a.sec, 0)
  ELSE NaN

(***************************************************************************)
(* The DOM under the observed root: a sequence of elements in document     *)
(* order.  parent is 0 for a child of the root, else the id of a <div>     *)
(* whose children follow it.  cls says the element bears class bd-rel-ts,  *)
(* marker that it bears data-rel-ready, timestamp is dataset.timestamp.    *)
(* An element's id is its place in the document: ids only tell elements    *)
(* apart, so every operation ends by renumbering (Canon).                  *)
(***************************************************************************)
TimeEl(id, parent, dt, title) ==
  [id |-> id, tag |-> "time", parent |-> parent, datetime |-> dt, title |-> title,
   marker |-> FALSE, cls |-> FALSE, timestamp |-> Absent, text |-> ""]

DivEl(id) ==
  [id |-> id, tag |-> "div", parent |-> 0, datetime |-> Absent, title |-> Absent,
   marker |-> FALSE, cls |-> FALSE, timestamp |-> Absent, text |-> ""]

Ids(d) == {d[i].id : i \in 1..Len(d)}
FreshId(d) == CHOOSE n \in 1..(Len(d) + 1) : n \notin Ids(d) /\ \A m \in 1..(n - 1) : m \in Ids(d)
IndexOf(d, id) == CHOOSE i \in 1..Len(d) : d[i].id = id
\* the elements renumbered by their place, and a queue of records renumbered
\* with them (a record of an element that left the document is dropped: the
\* callback can change nothing in the document through it)
Canon(d) ==
  [i \in 1..Len(d) |->
     [d[i] EXCEPT !.id = i, !.parent = IF @ = 0 THEN 0 ELSE IndexOf(d, @)]]
CanonRecs(d, q) ==
  LET kept == SelectSeq(q, LAMBDA r : r \in Ids(d))
  IN  [j \in 1..Len(kept) |-> IndexOf(d, kept[j])]
InsertAt(d, k, n) == SubSeq(d, 1, k - 1) \o <<n>> \o SubSeq(d, k, Len(d))

\* el.nextElementSibling as an index of d, 0 for null
NextElementSibling(d, i) ==
  LET cand == {j \in (i + 1)..Len(d) :
                 /\ d[j].parent = d[i].parent
                 /\ \A k \in (i + 1)..(j - 1) : d[k].parent = d[i].id}
  IN  IF cand = {} THEN 0 ELSE CHOOSE j \in cand : TRUE

\* the ids of a sequence of elements
IdsOf(ns) == [i \in 1..Len(ns) |-> ns[i].id]

\* document.querySelectorAll("time"), and n.querySelectorAll("time")
IsTime(n) == n.tag = "time"
TimeIds(d) == IdsOf(SelectSeq(d, IsTime))
TimeIdsUnder(d, id) == IdsOf(SelectSeq(d, LAMBDA n : n.tag = "time" /\ n.parent = id))
\* document.querySelectorAll(".bd-rel-ts"), as places of d
Labels(d) == {i \in 1..Len(d) : d[i].cls}

(***************************************************************************)
(* ElementAnnotator.  W is [dom, added]: the DOM and the ids of the spans  *)
(* inserted so far (each is a childList record for a connected observer).  *)
(***************************************************************************)
\* attachKnown without the reconcile branch of lines 436-444: always a new span
attachKnownAlwaysInsert(W, i, date, s, nowv) ==
  LET d    == W.dom
      tip  == IF s.showTooltip THEN toLocaleString(date) ELSE Absent
      span == [id |-> FreshId(d), tag |-> "span", parent |-> d[i].parent,
               datetime |-> Absent, title |-> tip, marker |-> FALSE,
               cls |-> TRUE, timestamp |-> toISOString(date),
               text |-> format(date, nowv, s)]
  IN  [dom   |-> InsertAt([d EXCEPT ![i].marker = TRUE], i + 1, span),
       added |-> Append(W.added, span.id)]

\* lines 438-442 and 447-456: what attach writes once the date is known
attachKnown(W, i, date, s, nowv) ==
  LET d    == W.dom
      next == NextElementSibling(d, i)
      tip  == IF s.showTooltip THEN toLocaleString(date) ELSE Absent
  IN  IF next # 0 /\ d[next].cls
      THEN [W EXCEPT !.dom = [d EXCEPT ![next].timestamp = toISOString(date),
                                       ![next].text = format(date, nowv, s),
                                       ![next].title = tip,
                                       ![i].marker = TRUE]]
      ELSE LET span == [id |-> FreshId(d), tag |-> "span", parent |-> d[i].parent,
                        datetime |-> Absent, title |-> tip, marker |-> FALSE,
                        cls |-> TRUE, timestamp |-> toISOString(date),
                        text |-> format(date, nowv, s)]
           IN  [dom   |-> InsertAt([d EXCEPT ![i].marker = TRUE], i + 1, span),
                added |-> Append(W.added, span.id)]

\* attach() without the marker test of line 426
attachNoMarkerTest(W, id, s, nowv) ==
  LET d  == W.dom
      i  == IndexOf(d, id)
      dt == IF d[i].datetime.kind # "absent" THEN d[i].datetime ELSE d[i].title
  IN  IF dt.kind = "absent" THEN W
      ELSE IF DateParse(dt) = NaN THEN W
      ELSE attachKnown(W, i, DateParse(dt), s, nowv)

\* attach() that sets the marker before the returns of lines 430 and 433
attachMarksUnparsable(W, id, s, nowv) ==
  LET d  == W.dom
      i  == IndexOf(d, id)
      dt == IF d[i].datetime.kind # "absent" THEN d[i].datetime ELSE d[i].title
  IN  IF d[i].marker THEN W
      ELSE IF dt.kind = "absent" THEN [W EXCEPT !.dom[i].marker = TRUE]
      ELSE IF DateParse(dt) = NaN THEN [W EXCEPT !.dom[i].marker = TRUE]
      ELSE attachKnown(W, i, DateParse(dt), s, nowv)

\* lines 421-460: attach(timeEl)
attach(W, id, s, nowv) ==
  LET d  == W.dom
      i  == IndexOf(d, id)
      dt == IF d[i].datetime.kind # "absent" THEN d[i].datetime ELSE d[i].title
  IN  IF d[i].marker THEN W
      ELSE IF dt.kind = "absent" THEN W
      ELSE IF DateParse(dt) = NaN THEN W
      ELSE attachKnown(W, i, DateParse(dt), s, nowv)

\* forEach(t => this.attach(t)) over a static list of elements
RECURSIVE AttachEach(_, _, _, _)
AttachEach(W, ids, s, nowv) ==
  IF ids = <<>> THEN W
  ELSE AttachEach(attach(W, Head(ids), s, nowv), Tail(ids), s, nowv)

\* lines 412-419: processAll()
processAll(W, s, nowv) == AttachEach(W, TimeIds(W.dom), s, nowv)

\* the mutation callback calling attach() on every added element, without the
\* matches("time") test of line 396
RECURSIVE OnMutationsAnyElement(_, _, _, _)
OnMutationsAnyElement(W, recs, s, nowv) ==
  IF recs = <<>> THEN W
  ELSE OnMutationsAnyElement(attach(W, Head(recs), s, nowv), Tail(recs), s, nowv)

\* lines 391-403: the mutation callback on the added nodes recs
RECURSIVE OnMutations(_, _, _, _)
OnMutations(W, recs, s, nowv) ==
  IF recs = <<>> THEN W
  ELSE LET n  == W.dom[IndexOf(W.dom, Head(recs))]
           W1 == IF n.tag = "time" THEN attach(W, n.id, s, nowv)
                 ELSE AttachEach(W, TimeIdsUnder(W.dom, n.id), s, nowv)
       IN  OnMutations(W1, Tail(recs), s, nowv)

\* refreshAll() reading the date again from the element in front of the label
refreshAllFromSource(d, s, nowv) ==
  [i \in 1..Len(d) |->
     IF d[i].cls /\ d[i].timestamp.kind # "absent" /\ i > 1
     THEN [d[i] EXCEPT !.text = format(DateParse(d[i - 1].datetime), nowv, s)]
     ELSE d[i]]

\* lines 462-473: refreshAll() at clock nowv
refreshAll(d, s, nowv) ==
  [i \in 1..Len(d) |->
     IF d[i].cls /\ d[i].timestamp.kind # "absent"
     THEN [d[i] EXCEPT !.text = format(DateParse(d[i].timestamp), nowv, s)]
     ELSE d[i]]

\* lines 556-563: the rewrite of every chip after a toggle
restyleAll(d, s, nowv) ==
  [i \in 1..Len(d) |->
     IF d[i].cls /\ d[i].timestamp.kind # "absent"
     THEN [d[i] EXCEPT !.text = format(DateParse(d[i].timestamp), nowv, s),
                       !.title = IF s.showTooltip
                                 THEN toLocaleString(DateParse(d[i].timestamp))
                                 ELSE Absent]
     ELSE d[i]]

(***************************************************************************)
(* RefreshScheduler and SubtreeWatcher handles.                            *)
(***************************************************************************)
FreshHandle(live) ==
  CHOOSE n \in 1..(Cardinality(live) + 1) : n \notin live /\ \A m \in 1..(n - 1) : m \in live

\* startTimer() without the clearInterval of line 379
startTimerNoClear(t, live) ==
  [timer |-> FreshHandle(live), live |-> live \cup {FreshHandle(live)}]

\* lines 378-382: startTimer(); t is this.timer, live the host's intervals
startTimer(t, live) ==
  LET live1 == live \ {t}
  IN  [timer |-> FreshHandle(live1), live |-> live1 \cup {FreshHandle(live1)}]

\* the liveUpdate branch without the clearInterval of lines 549 and 618
restartTimerNoClear(t, live, s) ==
  IF s.liveUpdate THEN startTimer(0, live \ {t})
  ELSE [timer |-> 0, live |-> live]

\* lines 549-551 and 618-620: clear, null, start again when liveUpdate
restartTimer(t, live, s) ==
  IF s.liveUpdate THEN startTimer(0, live \ {t})
  ELSE [timer |-> 0, live |-> live \ {t}]

(***************************************************************************)
(* The host: its clock and the elements it renders.                        *)
(***************************************************************************)
NowStart == MakeDate(2, 0)
\* instants the host's <time> elements carry: one in the past of every clock
\* value, one ahead of the first clock value
Early == MakeDate(0, 500)
Late == MakeDate(3, 0)
Instants == {Early, Late}
\* the datetime and title attributes of a <time> element the host renders
HostAttrs == {<<toISOString(Early), Absent>>, <<Absent, toLocaleString(Late)>>,
              <<Garbage, toLocaleString(Early)>>, <<Absent, Absent>>}

HostCount(d) == Cardinality({i \in 1..Len(d) : d[i].tag = "time"})
\* the places of d where a child of the root can be inserted
RootSlots(d) == {k \in 1..(Len(d) + 1) : k = Len(d) + 1 \/ d[k].parent = 0}

NoSave == [some |-> FALSE, ok |-> FALSE, val |-> defaultSettings]

\* the state right after the constructor, lines 17-44, for the host shape b
\* holding the value v in its stores and the text raw in localStorage
Constructed(b, v, raw) ==
  /\ backend = b
  /\ dataStore = v
  /\ legacyStore = v
  /\ lsStore = raw
  /\ settings = _loadSettings(b, v, v, raw)
  /\ saved = NoSave
  /\ timer = 0
  /\ liveTimers = {}
  /\ observer = 0
  /\ liveObservers = {}
  /\ pending = <<>>
  /\ styleCount = 0
  /\ dom = <<>>
  /\ now = NowStart
  /\ phase = "new"
  /\ ended = FALSE
  /\ op = "init"
  /\ toast = ""
  /\ fmtOut = ""

MainShape == [data |-> "bound", legacy |-> FALSE, ls |-> TRUE]

Init == Constructed(MainShape, Undefined, "") /\ fmtDate = NowStart

\* no record is queued for any observer: the microtask checkpoint that ends
\* every task has run, so the next task (a timer, a UI event) can start
Settled == \A o \in liveObservers : pending[o] = <<>>

storeVars == <<backend, dataStore, legacyStore, lsStore, saved>>
fmtVars == <<fmtDate, fmtOut>>

\* the host renders a <time> element as a child of the root, while fewer
\* than n are there
HostInsertTimeUpTo(n) ==
  /\ HostCount(dom) < n
  /\ \E k \in RootSlots(dom), a \in HostAttrs :
       LET d1 == InsertAt(dom, k, TimeEl(FreshId(dom), 0, a[1], a[2]))
       IN  /\ dom' = Canon(d1)
           /\ pending' = [o \in liveObservers |->
                            CanonRecs(d1, Append(pending[o], FreshId(dom)))]
  /\ op' = "hostInsert"
  /\ toast' = ""
  /\ UNCHANGED <<settings, storeVars, timer, liveTimers, observer, liveObservers,
                 styleCount, now, phase, ended, fmtVars>>

HostInsertTime == HostInsertTimeUpTo(MaxHost)

\* the host renders a <div> holding one <time> element, as the last child of the root
HostInsertSubtree ==
  /\ HostCount(dom) < MaxHost
  /\ \A i \in 1..Len(dom) : dom[i].tag # "div"
  /\ \E t \in {Early} :
       LET id == FreshId(dom)
           d1 == Append(dom, DivEl(id))
           d2 == Append(d1, TimeEl(FreshId(d1), id, toISOString(t), Absent))
       IN  /\ dom' = Canon(d2)
           /\ pending' = [o \in liveObservers |-> CanonRecs(d2, Append(pending[o], id))]
  /\ op' = "hostInsert"
  /\ toast' = ""
  /\ UNCHANGED <<settings, storeVars, timer, liveTimers, observer, liveObservers,
                 styleCount, now, phase, ended, fmtVars>>

\* the host renders a <time> element again: the old element leaves the
\* document and a new one takes its place (one record, for the added node)
HostRerender ==
  /\ \E i \in 1..Len(dom), a \in HostAttrs :
       /\ dom[i].tag = "time"
       /\ LET d1 == SubSeq(dom, 1, i - 1) \o SubSeq(dom, i + 1, Len(dom))
              id == FreshId(dom)
              d2 == InsertAt(d1, i, TimeEl(id, dom[i].parent, a[1], a[2]))
          IN  /\ dom' = Canon(d2)
              /\ pending' = [o \in liveObservers |->
                               CanonRecs(d2, Append(pending[o], id))]
  /\ op' = "hostRerender"
  /\ toast' = ""
  /\ UNCHANGED <<settings, storeVars, timer, liveTimers, observer, liveObservers,
                 styleCount, now, phase, ended, fmtVars>>

\* the host rewrites the datetime attribute of a <time> element (attribute
\* changes are not observed: no record is queued)
HostSetDatetime ==
  /\ \E i \in 1..Len(dom), t \in Instants :
       /\ dom[i].tag = "time"
       /\ dom[i].datetime.kind = "iso"
       /\ dom[i].datetime # toISOString(t)
       /\ dom' = [dom EXCEPT ![i].datetime = toISOString(t)]
  /\ op' = "hostSet"
  /\ toast' = ""
  /\ UNCHANGED <<settings, storeVars, timer, liveTimers, observer, liveObservers,
                 pending, styleCount, now, phase, ended, fmtVars>>

\* time passes
AdvanceClock ==
  /\ now.sec < NowStart.sec + MaxClock
  /\ now' = [now EXCEPT !.sec = @ + 1]
  /\ op' = "clock"
  /\ toast' = ""
  /\ UNCHANGED <<settings, storeVars, timer, liveTimers, observer, liveObservers,
                 pending, styleCount, dom, phase, ended, fmtVars>>

(***************************************************************************)
(* The plugin's entry points.                                              *)
(***************************************************************************)
\* injectCSS() without the guard of line 247
injectCSSUnguarded(n) == n + 1

\* lines 246-376: injectCSS(), on the number of style elements
injectCSS(n) == IF n > 0 THEN n ELSE n + 1

\* the host calls of start() that can throw: appendChild of the style (line
\* 374), new MutationObserver (line 391), observer.observe (line 405),
\* querySelectorAll of the sweep (line 414), setInterval (line 380)
StartFaults == {"css", "observer", "connect", "sweep", "timer"}

\* lines 202-215: start() = injectCSS, observe, processAll, startTimer, where
\* the host call named by fault throws ("none": no call throws).  A throw in
\* injectCSS or startTimer reaches the catch of line 211; a throw in observe
\* or processAll is caught there (lines 407, 416) and start() goes on.
StartWith(fault) ==
  LET live1 == liveObservers \ {observer}
      obs   == FreshHandle(live1)
      \* observe(), lines 384-410
      O     == IF fault = "css" THEN [observer |-> observer, live |-> liveObservers]
               ELSE IF fault = "observer" THEN [observer |-> observer, live |-> live1]
               ELSE IF fault = "connect" THEN [observer |-> obs, live |-> live1]
               ELSE [observer |-> obs, live |-> live1 \cup {obs}]
      \* processAll(), lines 412-419
      W0    == [dom |-> dom, added |-> <<>>]
      W     == IF fault \in {"css", "sweep"} THEN W0 ELSE processAll(W0, settings, now)
      \* line 208
      T     == IF fault = "css" \/ ~settings.liveUpdate
               THEN [timer |-> timer, live |-> liveTimers]
               ELSE IF fault = "timer" THEN [timer |-> timer, live |-> liveTimers \ {timer}]
               ELSE startTimer(timer, liveTimers)
  IN  /\ fault = "timer" => settings.liveUpdate
      /\ fault = "css" => styleCount = 0
      /\ styleCount' = IF fault = "css" THEN styleCount ELSE injectCSS(styleCount)
      /\ observer' = O.observer
      /\ liveObservers' = O.live
      /\ pending' = [o \in O.live |->
                       CanonRecs(W.dom, (IF o = obs THEN <<>> ELSE pending[o]) \o W.added)]
      /\ dom' = Canon(W.dom)
      /\ timer' = T.timer
      /\ liveTimers' = T.live
      /\ phase' = IF fault = "none" THEN "started" ELSE "failed"
      /\ op' = IF fault = "none" THEN "start" ELSE "startFault"
      /\ toast' = IF fault \in {"css", "timer"} THEN "error" ELSE "success"
      /\ UNCHANGED <<settings, storeVars, now, ended, fmtVars>>

\* start() when every host call succeeds
Start == StartWith("none")

\* start() when one of its host calls throws
StartFails == \E fault \in StartFaults : StartWith(fault)

\* stop() without line 228
removeLabelsNone(d) == d

\* line 228: every .bd-rel-ts element removed
removeLabels(d) == SelectSeq(d, LAMBDA n : ~n.cls)
\* stop() without line 231
unmarkNone(d) == d

\* line 231: the marker removed from every time[data-rel-ready]
unmarkAll(d) ==
  [i \in 1..Len(d) |-> IF d[i].tag = "time" THEN [d[i] EXCEPT !.marker = FALSE] ELSE d[i]]

\* lines 217-241: stop()
Stop ==
  /\ liveObservers' = liveObservers \ {observer}
  /\ pending' = [o \in liveObservers \ {observer} |->
                   CanonRecs(removeLabels(dom), pending[o])]
  /\ observer' = 0
  /\ liveTimers' = liveTimers \ {timer}
  /\ timer' = 0
  /\ dom' = Canon(unmarkAll(removeLabels(dom)))
  /\ styleCount' = IF styleCount > 0 THEN styleCount - 1 ELSE styleCount
  /\ phase' = "stopped"
  /\ ended' = (ended \/ \E i \in 1..Len(dom) : dom[i].marker)
  /\ op' = "stop"
  /\ toast' = "info"
  /\ UNCHANGED <<settings, storeVars, now, fmtVars>>

\* lines 391-403: the observer o is called with its queued records
MutationCallback ==
  \E o \in liveObservers :
    /\ pending[o] # <<>>
    /\ LET W == OnMutations([dom |-> dom, added |-> <<>>], pending[o], settings, now)
       IN  /\ dom' = Canon(W.dom)
           /\ pending' = [p \in liveObservers |->
                            CanonRecs(W.dom, (IF p = o THEN <<>> ELSE pending[p]) \o W.added)]
    /\ op' = "mutation"
    /\ toast' = ""
    /\ UNCHANGED <<settings, storeVars, timer, liveTimers, observer, liveObservers,
                   styleCount, now, phase, ended, fmtVars>>

\* the host calls of the callback that can throw while one element is
\* handled: n.matches (line 396), in the loop of the callback; the reads of
\* attach() before it writes (hasAttribute, getAttribute, lines 426-429); the
\* setAttribute of the marker after the label is written (lines 442, 456)
CallbackFaults == {"matches", "read", "mark"}

\* lines 421-460: attach(timeEl) in which the host call named by kind throws;
\* the catch of line 457 ends the call and keeps what was written before
attachWith(W, id, s, nowv, kind) ==
  LET d  == W.dom
      i  == IndexOf(d, id)
      dt == IF d[i].datetime.kind # "absent" THEN d[i].datetime ELSE d[i].title
  IN  IF kind = "read" THEN W
      ELSE IF d[i].marker \/ dt.kind = "absent" \/ DateParse(dt) = NaN
      THEN attach(W, id, s, nowv)
      ELSE LET W1 == attachKnown(W, i, DateParse(dt), s, nowv)
           IN  [W1 EXCEPT !.dom[i].marker = FALSE]

\* lines 391-403: the mutation callback on the added nodes recs, where the
\* call named by kind throws while the record at place at is handled.  A
\* throw of n.matches reaches the catch of line 400, which ends the loops:
\* the records from there on are not handled.  A throw inside attach() is
\* caught there (line 457) and the loops go on.
RECURSIVE OnMutationsWith(_, _, _, _, _, _)
OnMutationsWith(W, recs, s, nowv, at, kind) ==
  IF recs = <<>> THEN W
  ELSE IF at = 1 /\ kind = "matches" THEN W
  ELSE LET n   == W.dom[IndexOf(W.dom, Head(recs))]
           ids == TimeIdsUnder(W.dom, n.id)
           W1  == IF at # 1
                  THEN IF n.tag = "time" THEN attach(W, n.id, s, nowv)
                       ELSE AttachEach(W, ids, s, nowv)
                  ELSE IF n.tag = "time" THEN attachWith(W, n.id, s, nowv, kind)
                  ELSE IF ids = <<>> THEN W
                  ELSE AttachEach(attachWith(W, Head(ids), s, nowv, kind), Tail(ids), s, nowv)
       IN  OnMutationsWith(W1, Tail(recs), s, nowv, at - 1, kind)

\* lines 391-403: the observer o is called with its queued records and a
\* host call throws while one of them is handled
MutationCallbackFails ==
  \E o \in liveObservers :
    /\ pending[o] # <<>>
    /\ \E at \in 1..Len(pending[o]), kind \in CallbackFaults :
         LET W == OnMutationsWith([dom |-> dom, added |-> <<>>], pending[o],
                                  settings, now, at, kind)
         IN  /\ dom' = Canon(W.dom)
             /\ pending' = [p \in liveObservers |->
                              CanonRecs(W.dom, (IF p = o THEN <<>> ELSE pending[p]) \o W.added)]
    /\ op' = "mutationFault"
    /\ toast' = ""
    /\ UNCHANGED <<settings, storeVars, timer, liveTimers, observer, liveObservers,
                   styleCount, now, phase, ended, fmtVars>>

\* line 380: an interval the host still holds fires refreshAll()
Tick ==
  /\ Settled
  /\ liveTimers # {}
  /\ dom' = refreshAll(dom, settings, now)
  /\ op' = "tick"
  /\ toast' = ""
  /\ UNCHANGED <<settings, storeVars, timer, liveTimers, observer, liveObservers,
                 pending, styleCount, now, phase, ended, fmtVars>>

\* line 545 / 610: _saveSettings() of the settings s
SaveVars(s) ==
  LET r == _dataSave(backend, dataStore, legacyStore, lsStore, Obj(s))
  IN  /\ dataStore' = r.ds
      /\ legacyStore' = r.lg
      /\ lsStore' = r.ls
      /\ saved' = [some |-> TRUE, ok |-> r.ok, val |-> s]
      /\ UNCHANGED backend

\* lines 542-570: the change handler of the checkbox of key, now checked = v
Toggle ==
  \E key \in SettingKeys, v \in BOOLEAN :
    Settled /\
    LET s == [settings EXCEPT ![key] = v]
        T == IF key = "liveUpdate" THEN restartTimer(timer, liveTimers, s)
             ELSE [timer |-> timer, live |-> liveTimers]
    IN  /\ settings' = s
        /\ SaveVars(s)
        /\ timer' = T.timer
        /\ liveTimers' = T.live
        /\ dom' = IF key \in {"showTooltip", "detailed"} THEN restyleAll(dom, s, now)
                  ELSE dom
        /\ op' = "toggle"
        /\ toast' = ""
        /\ UNCHANGED <<observer, liveObservers, pending, styleCount, now, phase, ended, fmtVars>>

\* lines 607-626: the click handler of "Reset to defaults"
Reset ==
  LET s == defaultSettings
      T == restartTimer(timer, liveTimers, s)
  IN  /\ Settled
      /\ settings' = s
      /\ SaveVars(s)
      /\ dom' = refreshAll(dom, s, now)
      /\ timer' = T.timer
      /\ liveTimers' = T.live
      /\ op' = "reset"
      /\ toast' = "success"
      /\ UNCHANGED <<observer, liveObservers, pending, styleCount, now, phase, ended, fmtVars>>

Next ==
  \/ HostInsertTime
  \/ HostInsertSubtree
  \/ HostRerender
  \/ HostSetDatetime
  \/ AdvanceClock
  \/ Start
  \/ Stop
  \/ MutationCallback
  \/ Tick
  \/ Toggle
  \/ Reset

Spec == Init /\ [][Next]_vars

\* the same machine on every shape of the host persistence API
InitStores == \E b \in Shapes : Constructed(b, Undefined, "") /\ fmtDate = NowStart

SpecStores == InitStores /\ [][Next]_vars

\* the annotation on its own, with room for a second <time> element: the
\* host's insertions, start(), stop() and the mutation callback, under the
\* settings and the clock of Init
HostInsertSource == HostInsertTimeUpTo(MaxSources)

NextSources ==
  \/ HostInsertSource
  \/ HostRerender
  \/ Start
  \/ Stop
  \/ MutationCallback

SpecSources == Init /\ [][NextSources]_vars

\* the annotation on a host whose calls can throw inside the mutation callback
NextSourceFaults ==
  \/ NextSources
  \/ MutationCallbackFails

SpecSourceFaults == Init /\ [][NextSourceFaults]_vars

\* the same machine on a host whose calls can throw during start()
NextFaults ==
  \/ Next
  \/ StartFails

SpecFaults == Init /\ [][NextFaults]_vars

(***************************************************************************)
(* The settings store on its own: every host shape, every persisted value, *)
(* the handlers that save and the load of a fresh instance.                *)
(***************************************************************************)
\* the values a host can hold for the plugin: nothing, a non-object, or a
\* mapping of some keys (all on or all off)
PersistedValues ==
  {Undefined, Prim("null"), Prim("string"), Prim("number"), ArrayValue}
  \cup {Obj(m) : m \in UNION {[K -> {TRUE}] \cup [K -> {FALSE}] : K \in SUBSET AllKeys}}

InitSettings ==
  \E b \in Shapes, v \in PersistedValues :
    \E raw \in {"", CorruptText} \cup {JSONstringify(w) : w \in {v} \ {Undefined}} :
      Constructed(b, v, raw) /\ fmtDate = NowStart

\* lines 176-186: _loadSettings(), as the constructor of a new instance calls it
LoadSettings ==
  /\ settings' = _loadSettings(backend, dataStore, legacyStore, lsStore)
  /\ op' = "load"
  /\ toast' = ""
  /\ UNCHANGED <<storeVars, timer, liveTimers, observer, liveObservers, pending,
                 styleCount, dom, now, phase, ended, fmtVars>>

NextSettings ==
  \/ LoadSettings
  \/ Toggle
  \/ Reset

SpecSettings == InitSettings /\ [][NextSettings]_vars

(***************************************************************************)
(* The formatter on its own: format(fmtDate, now) for bounded inputs.      *)
(***************************************************************************)
UnitCounts == 0..MaxUnit
ElapsedInputs ==
  {y * SecPerYear + mo * SecPerMonth + d * SecPerDay + h * SecPerHour + m * SecPerMin + sec :
     y \in UnitCounts, mo \in UnitCounts, d \in UnitCounts, h \in UnitCounts,
     m \in UnitCounts, sec \in UnitCounts}
  \cup {SecPerMin - 1, SecPerHour - 1, SecPerDay - 1, SecPerMonth - 1, SecPerYear - 1}

After(t, e, f) == MakeDate(t.sec + e, t.frac + f)

\* the date is NowStart, or lies the elapsed time e.f ahead of NowStart
InitFormat ==
  \E e \in ElapsedInputs, f \in {0, MsPerSec - 1}, det \in BOOLEAN :
    /\ Constructed(MainShape, Obj([k \in {"detailed"} |-> det]), "")
    /\ fmtDate \in {NowStart, After(NowStart, e, f)}

\* format(fmtDate, now) is called when the clock reads e.f after NowStart
FormatCall ==
  /\ fmtOut = ""
  /\ \E e \in ElapsedInputs, f \in {0, MsPerSec - 1} :
       /\ fmtDate # NowStart => e = 0
       /\ now' = After(NowStart, e, f)
       /\ fmtOut' = format(fmtDate, now', settings)
  /\ op' = "format"
  /\ toast' = ""
  /\ UNCHANGED <<settings, storeVars, timer, liveTimers, observer, liveObservers,
                 pending, styleCount, dom, phase, ended, fmtDate>>

NextFormat == FormatCall

SpecFormat == InitFormat /\ [][NextFormat]_vars

(***************************************************************************)
(* Properties.                                                             *)
(***************************************************************************)
Parsable(n) ==
  /\ n.tag = "time"
  /\ LET dt == IF n.datetime.kind # "absent" THEN n.datetime ELSE n.title
     IN  dt.kind \in {"iso", "locale"}
SourceDate(n) == DateParse(IF n.datetime.kind # "absent" THEN n.datetime ELSE n.title)
Stale(n) == n.cls /\ n.text # format(DateParse(n.timestamp), now, settings)
Tooltip(date) == IF settings.showTooltip THEN toLocaleString(date) ELSE Absent

\* C1: every label stands right after a <time> element, its source, so no
\* source has two labels; attach() on a source that bears the marker returns
\* the document unchanged; and a start() that inserts nothing leaves every
\* marked source and the label after it as they were.
C1_Sources ==
  /\ \A j \in Labels(dom) :
       j > 1 /\ dom[j - 1].tag = "time" /\ dom[j - 1].parent = dom[j].parent
  /\ \A i \in 1..Len(dom) :
       dom[i].tag = "time" /\ dom[i].marker =>
         attach([dom |-> dom, added |-> <<>>], dom[i].id, settings, now)
           = [dom |-> dom, added |-> <<>>]
C1_StartStep ==
  (op' = "start" /\ Len(dom') = Len(dom)) =>
    \A i \in 1..Len(dom) :
      dom[i].tag = "time" /\ dom[i].marker =>
        /\ dom'[i] = dom[i]
        /\ (i < Len(dom) /\ dom[i + 1].cls => dom'[i + 1] = dom[i + 1])
C1_OneLabelIdempotent == [](C1_Sources) /\ [][C1_StartStep]_vars
\* start() has just run over a marked source whose label text was out of date
C1_Witness ==
  /\ op = "start"
  /\ \E i \in 1..Len(dom) :
       dom[i].tag = "time" /\ dom[i].marker /\ i < Len(dom) /\ Stale(dom[i + 1])

\* C2: right after stop() there is no label, no marker, no stylesheet, no
\* connected observer and no live timer.
C2_CleanAfterStop ==
  op = "stop" =>
    /\ Labels(dom) = {}
    /\ \A i \in 1..Len(dom) : ~dom[i].marker
    /\ styleCount = 0
    /\ observer = 0 /\ liveObservers = {}
    /\ timer = 0 /\ liveTimers = {}
C2_Witness ==
  op = "stop" /\ \E i \in 1..Len(dom) : Parsable(dom[i])

\* C3: between stop() and the next start() no timer and no observer runs and
\* no label exists.
C3_InertAfterStop ==
  phase = "stopped" => liveTimers = {} /\ liveObservers = {} /\ Labels(dom) = {}

\* C4: the host holds at most one interval of the plugin, the one this.timer names.
C4_OneTimer == Cardinality(liveTimers) <= 1 /\ liveTimers \subseteq {timer}
\* start() ran while the timer of an earlier start() was running: the settings
\* were never changed and a label of the earlier start() is still there
C4_Witness ==
  /\ op = "start" /\ saved = NoSave /\ timer # 0
  /\ \E j \in Labels(dom) : Stale(dom[j])

\* C5: right after a tick every label with a stored instant shows
\* format(stored instant, now) under the current settings.
C5_RefreshFromStored ==
  op = "tick" =>
    \A j \in Labels(dom) :
      dom[j].timestamp.kind # "absent" =>
        dom[j].text = format(DateParse(dom[j].timestamp), now, settings)
\* a tick ran for a label whose source now carries another instant, one that
\* would format differently
C5_Witness ==
  /\ op = "tick"
  /\ \E j \in Labels(dom) :
       /\ j > 1 /\ Parsable(dom[j - 1])
       /\ format(SourceDate(dom[j - 1]), now, settings) # dom[j].text

\* the store _dataLoad and _dataSave reach first on this host, by the order
\* of preference BdApi.Data, loadData/saveData, localStorage
PreferredStore ==
  IF backend.data \in {"bound", "unbound"} THEN "data"
  ELSE IF backend.legacy THEN "legacy"
  ELSE IF backend.ls THEN "local"
  ELSE "none"
\* the persisted value is a mapping m taken from the set Ms
PersistedIn(Ms) ==
  CASE PreferredStore = "data"   -> dataStore.kind = "object" /\ dataStore.obj \in Ms
    [] PreferredStore = "legacy" -> legacyStore.kind = "object" /\ legacyStore.obj \in Ms
    [] PreferredStore = "local"  -> lsStore \in {JSONstringify(Obj(m)) : m \in Ms}
    [] OTHER                     -> FALSE

\* C6: a load that follows an accepted save yields the settings that were saved,
\* on every host shape.
C6_RoundTrip ==
  op = "load" /\ saved.some /\ saved.ok => settings = saved.val
\* settings other than the defaults went through JSON text in localStorage
C6_Witness ==
  /\ op = "load" /\ saved.some /\ saved.ok
  /\ saved.val \in WellFormedSettings /\ saved.val # defaultSettings
  /\ PreferredStore = "local"
  /\ settings = saved.val

\* C7 as stated: whenever the persisted value is anything but a mapping of the
\* three keys to booleans, the constructor and a load leave the defaults.
C7_DefaultsUnlessWellFormed ==
  op \in {"init", "load"} /\ ~PersistedIn(WellFormedSettings) => settings = defaultSettings
\* C7 amended: whenever the persisted value is missing, unparsable or no plain
\* mapping (null, a primitive, an array), the constructor and a load leave the defaults.
C7_DefaultsUnlessMapping ==
  op \in {"init", "load"} /\ ~PersistedIn(Mappings) => settings = defaultSettings
\* a load met an unparsable text in localStorage
C7_Witness ==
  op = "load" /\ PreferredStore = "local" /\ lsStore = CorruptText

\* the source at place i is unmarked, parsable and followed by a label
ReconcileCase(d, i) ==
  /\ Parsable(d[i]) /\ ~d[i].marker
  /\ NextElementSibling(d, i) # 0
  /\ d[NextElementSibling(d, i)].cls
\* d1 is d with the source at i marked and the label after it rewritten in place
Reconciled(d, d1, i) ==
  LET j == NextElementSibling(d, i)
  IN  /\ Len(d1) = Len(d)
      /\ Labels(d1) = Labels(d)
      /\ d1[i] = [d[i] EXCEPT !.marker = TRUE]
      /\ d1[j].text = format(SourceDate(d[i]), now, settings)
      /\ d1[j].title = Tooltip(SourceDate(d[i]))
      /\ \A k \in 1..Len(d) : k \notin {i, j} => d1[k] = d[k]

\* C8: attach() on an unmarked parsable source that a label follows inserts
\* nothing, rewrites that label's text and tooltip (present iff showTooltip)
\* and marks the source; and a mutation callback for that one source does so.
C8_Attach ==
  \A i \in 1..Len(dom) :
    ReconcileCase(dom, i) =>
      LET W == attach([dom |-> dom, added |-> <<>>], dom[i].id, settings, now)
      IN  W.added = <<>> /\ Reconciled(dom, W.dom, i)
C8_CallbackStep ==
  \A i \in 1..Len(dom) :
    (/\ op' = "mutation"
     /\ liveObservers = {observer}
     /\ pending[observer] = <<dom[i].id>>
     /\ ReconcileCase(dom, i)) => Reconciled(dom, dom', i) /\ Settled'
C8_Reconcile == [](C8_Attach) /\ [][C8_CallbackStep]_vars
\* the callback is about to be called for a re-rendered source that the label
\* of the element it replaced still follows
C8_Witness ==
  \E i \in 1..Len(dom) :
    /\ liveObservers = {observer}
    /\ pending[observer] = <<dom[i].id>>
    /\ ReconcileCase(dom, i)
    /\ Stale(dom[NextElementSibling(dom, i)])

(***************************************************************************)
(* The documented decomposition, written from the table of units.          *)
(***************************************************************************)
UnitTable ==
  << [size |-> SecPerYear,  name |-> "year",   abbr |-> "y"],
     [size |-> SecPerMonth, name |-> "month",  abbr |-> "mo"],
     [size |-> SecPerDay,   name |-> "day",    abbr |-> "d"],
     [size |-> SecPerHour,  name |-> "hour",   abbr |-> "h"],
     [size |-> SecPerMin,   name |-> "minute", abbr |-> "m"],
     [size |-> 1,           name |-> "second", abbr |-> "s"] >>

\* max(0, floor(seconds(now - date)))
ElapsedSeconds(date, nowv) ==
  LET whole == IF nowv.frac >= date.frac THEN nowv.sec - date.sec
               ELSE nowv.sec - date.sec - 1
  IN  IF whole < 0 THEN 0 ELSE whole

\* what is left of e after the first i units, and the count of unit i
RECURSIVE Rest(_, _)
Rest(e, i) == IF i = 0 THEN e ELSE Rest(e, i - 1) % UnitTable[i].size
UnitCount(e, i) == Rest(e, i - 1) \div UnitTable[i].size
Shown(e) ==
  LET nz == {i \in 1..Len(UnitTable) : UnitCount(e, i) # 0}
  IN  IF nz = {} THEN {Len(UnitTable)} ELSE nz
RECURSIVE DetailedFrom(_, _)
DetailedFrom(e, i) ==
  IF i > Len(UnitTable) THEN "ago"
  ELSE IF i \in Shown(e)
  THEN ToString(UnitCount(e, i)) \o " " \o UnitTable[i].name
       \o (IF UnitCount(e, i) = 1 THEN "" ELSE "s") \o " " \o DetailedFrom(e, i + 1)
  ELSE DetailedFrom(e, i + 1)
CompactOf(e) ==
  LET i == CHOOSE k \in Shown(e) : \A m \in Shown(e) : k <= m
  IN  ToString(UnitCount(e, i)) \o UnitTable[i].abbr \o " ago"

\* C9: in detailed mode format() returns every non-zero unit of the greedy
\* decomposition in descending order, plural iff the count is not 1, then
\* "ago", with seconds when every unit is zero; 0 gives "0 seconds ago" and
\* 90061 gives "1 day 1 hour 1 minute 1 second ago".
C9_Detailed ==
  op = "format" /\ settings.detailed =>
    LET e == ElapsedSeconds(fmtDate, now)
    IN  /\ fmtOut = DetailedFrom(e, 1)
        /\ (e = 0 => fmtOut = "0 seconds ago")
        /\ (e = 90061 => fmtOut = "1 day 1 hour 1 minute 1 second ago")
C9_Witness ==
  /\ op = "format" /\ settings.detailed
  /\ ElapsedSeconds(fmtDate, now) = 90061
  /\ fmtOut = "1 day 1 hour 1 minute 1 second ago"

\* C10: in compact mode format() returns the largest non-zero unit of the same
\* decomposition, abbreviated, then " ago", seconds when every unit is zero;
\* 0 gives "0s ago" and 90061 gives "1d ago".
C10_Compact ==
  op = "format" /\ ~settings.detailed =>
    LET e == ElapsedSeconds(fmtDate, now)
    IN  /\ fmtOut = CompactOf(e)
        /\ (e = 0 => fmtOut = "0s ago")
        /\ (e = 90061 => fmtOut = "1d ago")
C10_Witness ==
  /\ op = "format" /\ ~settings.detailed
  /\ ElapsedSeconds(fmtDate, now) = SecPerMonth + SecPerDay
  /\ fmtOut = "1mo ago"

\* C11: after a start() in which a step failed, one failure toast has been
\* shown and neither an observer nor a timer is running.
C11_FailedStartInert ==
  op = "startFault" => toast = "error" /\ liveTimers = {} /\ liveObservers = {}

\* C12: a start() taken while started (no stop() since the last start())
\* leaves one stylesheet, one connected observer (the one this.observer
\* names) and at most one timer; when it directly follows a start() it
\* leaves the document, hence the set of labels, exactly as it was, inserts
\* nothing, and no source is followed by two labels.
C12_StartAgainStep ==
  (phase = "started" /\ op' = "start") =>
    /\ styleCount' = 1
    /\ observer' # 0 /\ liveObservers' = {observer'}
    /\ Cardinality(liveTimers') <= 1
    /\ op = "start" =>
         /\ dom' = dom
         /\ pending'[observer'] = <<>>
         /\ \A i \in 1..Len(dom') :
              dom'[i].tag = "time" /\ i + 2 <= Len(dom') =>
                ~(dom'[i + 1].cls /\ dom'[i + 2].cls)
C12_StartIdempotent == [][C12_StartAgainStep]_vars
\* start() has just run and inserted nothing although labels are present:
\* they were made by an activation that no stop() has ended
C12_Witness ==
  /\ op = "start" /\ phase = "started"
  /\ Labels(dom) # {}
  /\ pending[observer] = <<>>
  /\ styleCount = 1 /\ liveTimers = {timer}

\* C13: after a settings handler (a toggle or the reset) whose save the backend
\* accepted, the persisted value is the in-memory settings and a load returns
\* them; and only these handlers change the settings.
C13_Persisted ==
  op \in {"toggle", "reset"} /\ saved.ok =>
    /\ saved.val = settings
    /\ PersistedIn({settings})
    /\ _loadSettings(backend, dataStore, legacyStore, lsStore) = settings
C13_OnlyHandlers == settings' # settings => op' \in {"toggle", "reset"}
C13_PersistOnMutation == [](C13_Persisted) /\ [][C13_OnlyHandlers]_vars
\* a toggle changed the settings while labels exist and the write went to localStorage
C13_Witness ==
  /\ op = "toggle" /\ saved.ok /\ settings # defaultSettings
  /\ PreferredStore = "local" /\ lsStore = JSONstringify(Obj(settings))
  /\ Labels(dom) # {}

\* the clock readings of a behaviour
ClockReadings == {MakeDate(NowStart.sec + k, NowStart.frac) : k \in 0..MaxClock}
\* the text of the label n is its instant rendered in the style settings.detailed selects
InStyle(n) ==
  \E t \in ClockReadings : n.text = format(DateParse(n.timestamp), t, settings)

\* C14: after a settings handler (a toggle or the reset) every label's text is
\* in the style settings.detailed selects and every label carries a tooltip
\* iff settings.showTooltip.
C14_LabelsFollowSettings ==
  op \in {"toggle", "reset"} =>
    \A j \in Labels(dom) :
      /\ InStyle(dom[j])
      /\ dom[j].title = Tooltip(DateParse(dom[j].timestamp))

\* dataset.timestamp of the labels of d, in document order
LabelInstants(d) ==
  LET ls == SelectSeq(d, LAMBDA n : n.cls)
  IN  [k \in 1..Len(ls) |-> ls[k].timestamp]

\* C15: no step changes the instant stored on a label: a step that neither
\* creates nor removes a label leaves the stored instants as they were.
C15_InstantStep ==
  Len(LabelInstants(dom')) = Len(LabelInstants(dom)) =>
    LabelInstants(dom') = LabelInstants(dom)
C15_InstantImmutable == [][C15_InstantStep]_vars

\* C16: a source whose instant is absent or does not parse is never marked,
\* attach() on it changes nothing, and attach() evaluates it again: once it
\* carries an instant that parses, attach() annotates it.
C16_UnparsableUnmarked ==
  \A i \in 1..Len(dom) :
    dom[i].tag = "time" /\ ~Parsable(dom[i]) =>
      LET W0 == [dom |-> dom, added |-> <<>>]
          W1 == [dom |-> [dom EXCEPT ![i].datetime = toISOString(Early)], added |-> <<>>]
      IN  /\ ~dom[i].marker
          /\ attach(W0, dom[i].id, settings, now) = W0
          /\ attach(W1, dom[i].id, settings, now).dom[i].marker
\* the mutation callback has handled a source that does not parse: no label exists
C16_Witness ==
  /\ op = "mutation" /\ phase = "started"
  /\ Labels(dom) = {}
  /\ \E i \in 1..Len(dom) : dom[i].tag = "time" /\ ~Parsable(dom[i]) /\ ~dom[i].marker

\* C17: a running timer implies settings.liveUpdate, and while the plugin is
\* started (after a start(), before the next stop()) a timer runs iff
\* settings.liveUpdate.
C17_TimerTracksLiveUpdate ==
  /\ liveTimers # {} => settings.liveUpdate
  /\ phase = "started" => (liveTimers # {} <=> settings.liveUpdate)
  /\ phase = "started" => (timer # 0 <=> settings.liveUpdate)
\* liveUpdate has just been switched off while started: the timer is gone
C17_Witness ==
  /\ op = "toggle" /\ phase = "started"
  /\ ~settings.liveUpdate /\ liveTimers = {} /\ timer = 0
  /\ Labels(dom) # {}

\* the source at place i of d is marked and the next element is a label
Annotated(d, i) == d[i].marker /\ i < Len(d) /\ d[i + 1].cls
\* the source at place i of d is marked and a label follows it before any
\* other parsable source does
Labelled(d, i) ==
  /\ d[i].marker
  /\ \E j \in (i + 1)..Len(d) :
       d[j].cls /\ \A k \in (i + 1)..(j - 1) : ~d[k].cls /\ ~Parsable(d[k])
\* the places of the <time> elements of d, in document order
TimePlaces(d) == IdsOf(SelectSeq(Canon(d), IsTime))
\* the element at place i of d is an added node of the records q or a child of one
InBatch(d, q, i) ==
  \E r \in 1..Len(q) : q[r] = d[i].id \/ q[r] = d[i].parent

\* C18: right after start() every parsable <time> element present is marked
\* and followed by a label (its own: no other parsable source stands between
\* them); and after the mutation callback has handled a
\* batch, every parsable <time> element of the batch (an added node or a
\* descendant of one) is marked and followed by a label.
C18_AfterStart ==
  op = "start" => \A i \in 1..Len(dom) : Parsable(dom[i]) => Labelled(dom, i)
C18_BatchStep ==
  op' = "mutation" =>
    \A k \in 1..Len(TimePlaces(dom)) :
      LET i == TimePlaces(dom)[k]
      IN  InBatch(dom, pending[observer], i) /\ Parsable(dom[i])
            => Annotated(dom', TimePlaces(dom')[k])
C18_Coverage == [](C18_AfterStart) /\ [][C18_BatchStep]_vars
\* C19: a start() that follows a stop() leaves every parsable <time> element
\* marked and followed by exactly one label, made by this start(): no marker
\* and no label of the activation before survived the stop().
C19_Stopped ==
  phase = "stopped" => Labels(dom) = {} /\ \A i \in 1..Len(dom) : ~dom[i].marker
C19_RestartStep ==
  (phase = "stopped" /\ op' = "start") =>
    /\ \A i \in 1..Len(dom') :
         Parsable(dom'[i]) =>
           Annotated(dom', i) /\ (i + 2 <= Len(dom') => ~dom'[i + 2].cls)
    /\ \A j \in Labels(dom') :
         /\ j > 1 /\ Parsable(dom'[j - 1])
         /\ dom'[j].timestamp = toISOString(SourceDate(dom'[j - 1]))
         /\ dom'[j].text = format(SourceDate(dom'[j - 1]), now, settings)
    /\ Cardinality(Labels(dom')) = Len(pending'[observer'])
C19_Restart == [](C19_Stopped) /\ [][C19_RestartStep]_vars
\* start() has run after a stop() and has labelled a source again
C19_Witness ==
  /\ op = "start" /\ ended
  /\ \E i \in 1..Len(dom) : Parsable(dom[i]) /\ Annotated(dom, i)
  /\ Len(pending[observer]) = Cardinality(Labels(dom))

\* every record of the queue q is a label of the plugin in the document d
OwnRecords(d, q) == \A r \in 1..Len(q) : d[q[r]].cls

\* C20: a callback that is handed only labels of the plugin creates no label,
\* marks no source and queues nothing, so it leaves the document as it was
\* and the queue empty; and whatever a callback is handed, the records it
\* leaves queued are labels only.  Two deliveries after the host's last
\* insertion the queue is empty and stays empty.
C20_OwnStep ==
  op' = "mutation" =>
    /\ OwnRecords(dom', pending'[observer'])
    /\ OwnRecords(dom, pending[observer]) => dom' = dom /\ pending'[observer'] = <<>>
C20_NoFeedback == [][C20_OwnStep]_vars
\* the callback has run, the source was marked before it and its label still
\* shows an earlier clock reading: the records were the plugin's own labels
C20_Witness ==
  /\ op = "mutation" /\ Settled
  /\ \E i \in 1..Len(dom) : dom[i].tag = "time" /\ Annotated(dom, i) /\ Stale(dom[i + 1])

\* the parsable, unmarked sources of the batch q that stand unannotated in
\* d1, the document after the callback, counted by their rank among the
\* <time> elements
LeftOut(d, q, d1) ==
  {k \in 1..Len(TimePlaces(d)) :
     LET i == TimePlaces(d)[k]
     IN  /\ InBatch(d, q, i) /\ Parsable(d[i]) /\ ~d[i].marker
         /\ ~Annotated(d1, TimePlaces(d1)[k])}

\* C21: when a call throws while the callback handles one element of a
\* batch, the observer stays connected and every other parsable source of
\* the batch is annotated: at most the one element is left out.
C21_FaultStep ==
  op' = "mutationFault" =>
    /\ observer' = observer /\ liveObservers' = liveObservers
    /\ Cardinality(LeftOut(dom, pending[observer], dom')) <= 1
C21_FaultIsolation == [][C21_FaultStep]_vars

====
